---- MODULE Spec2Model ----
(***************************************************************************)
(* Subscription lifecycle of the fan-club application (src/app.py):        *)
(* join_funclub_execute (registration) and customer_del_execute            *)
(* (termination) over the Subscription and EventParticipation tables.      *)
(* Every request runs on a connection of its own (get_db); each SQL        *)
(* statement is one atomic step, so requests served by different threads   *)
(* interleave between statements.                                          *)
(***************************************************************************)
EXTENDS Integers, Sequences, FiniteSets, TLC

VARIABLES Subscription, EventParticipation, req

vars == <<Subscription, EventParticipation, req>>

(***************************************************************************)
(* Bounds of the model.                                                    *)
(***************************************************************************)
\* subscription ids submitted in the form are drawn from 1..MaxSubId
MaxSubId == 2
\* the threads serving requests: a second one for requests in service at the
\* same time (the development server is threaded)
Slots == {1, 2}

(***************************************************************************)
(* Text: a string is a sequence of one-character strings.                  *)
(***************************************************************************)
Digits == <<"0", "1", "2", "3", "4", "5", "6", "7", "8", "9">>

IsDigit(c) == \E i \in 1..10 : Digits[i] = c

DigitVal(c) == (CHOOSE i \in 1..10 : Digits[i] = c) - 1

DigitChar(n) == Digits[n + 1]

\* code point of a character, for SQLite's BINARY collation of TEXT values
Ord(c) == IF c = "-" THEN 45 ELSE IF IsDigit(c) THEN 48 + DigitVal(c) ELSE 120

RECURSIVE DecVal(_)
DecVal(s) == IF s = <<>> THEN 0
             ELSE 10 * DecVal(SubSeq(s, 1, Len(s) - 1)) + DigitVal(s[Len(s)])

AllDigits(s) == \A i \in 1..Len(s) : IsDigit(s[i])

\* int(str): an optional sign followed by one or more decimal digits;
\* anything else raises ValueError.
ValueError == [ok |-> FALSE, val |-> 0]

Parsed(v) == [ok |-> TRUE, val |-> v]

IntParse(s) ==
    LET signed == Len(s) > 0 /\ s[1] \in {"-", "+"}
        body   == IF signed THEN Tail(s) ELSE s
    IN  IF Len(body) = 0 \/ ~AllDigits(body) THEN ValueError
        ELSE IF signed /\ s[1] = "-" THEN Parsed(0 - DecVal(body))
        ELSE Parsed(DecVal(body))

RECURSIVE TextLess(_, _)
\* a < b for two TEXT values (memcmp order, the shorter prefix first)
TextLess(a, b) ==
    IF b = <<>> THEN FALSE
    ELSE IF a = <<>> THEN TRUE
    ELSE IF Ord(Head(a)) # Ord(Head(b)) THEN Ord(Head(a)) < Ord(Head(b))
    ELSE TextLess(Tail(a), Tail(b))

(***************************************************************************)
(* datetime.date: proleptic Gregorian ordinals, 0001-01-01 is day 1.       *)
(***************************************************************************)
MINYEAR == 1
MAXYEAR == 9999

IsLeap(y) == y % 4 = 0 /\ (y % 100 # 0 \/ y % 400 = 0)

DAYS_IN_MONTH == <<31, 28, 31, 30, 31, 30, 31, 31, 30, 31, 30, 31>>

DAYS_BEFORE_MONTH == <<0, 31, 59, 90, 120, 151, 181, 212, 243, 273, 304, 334>>

DaysInMonth(y, m) == IF m = 2 /\ IsLeap(y) THEN 29 ELSE DAYS_IN_MONTH[m]

DaysBeforeYear(y) ==
    (y - 1) * 365 + ((y - 1) \div 4) - ((y - 1) \div 100) + ((y - 1) \div 400)

DaysBeforeMonth(y, m) ==
    DAYS_BEFORE_MONTH[m] + (IF m > 2 /\ IsLeap(y) THEN 1 ELSE 0)

\* date(y, m, d).toordinal()
Ymd2Ord(y, m, d) == DaysBeforeYear(y) + DaysBeforeMonth(y, m) + d

MaxOrdinal == Ymd2Ord(MAXYEAR, 12, 31)

\* date.fromordinal(n) as <<year, month, day>>
Ord2Ymd(ordinal) ==
    LET n0   == ordinal - 1
        n400 == n0 \div 146097
        r400 == n0 % 146097
        n100 == r400 \div 36524
        r100 == r400 % 36524
        n4   == r100 \div 1461
        r4   == r100 % 1461
        n1   == r4 \div 365
        n    == r4 % 365
        year == n400 * 400 + 1 + n100 * 100 + n4 * 4 + n1
        leap == n1 = 3 /\ (n4 # 24 \/ n100 = 3)
        mg   == (n + 50) \div 32
        pg   == DAYS_BEFORE_MONTH[mg] + (IF mg > 2 /\ leap THEN 1 ELSE 0)
        month == IF pg > n THEN mg - 1 ELSE mg
        prec == IF pg > n
                THEN pg - (DAYS_IN_MONTH[month]
                           + (IF month = 2 /\ leap THEN 1 ELSE 0))
                ELSE pg
    IN  IF n1 = 4 \/ n100 = 4 THEN <<year - 1, 12, 31>>
        ELSE <<year, month, n - prec + 1>>

Pad2(n) == <<DigitChar(n \div 10), DigitChar(n % 10)>>

Pad4(n) == <<DigitChar(n \div 1000), DigitChar((n \div 100) % 10),
             DigitChar((n \div 10) % 10), DigitChar(n % 10)>>

\* sqlite3's default adapter for datetime.date: date.isoformat()
IsoFormat(ordinal) ==
    LET ymd == Ord2Ymd(ordinal)
    IN  Pad4(ymd[1]) \o <<"-">> \o Pad2(ymd[2]) \o <<"-">> \o Pad2(ymd[3])

\* the date a stored ISO text denotes (used to state properties of rows)
IsoOrdinal(t) ==
    Ymd2Ord(DecVal(SubSeq(t, 1, 4)), DecVal(SubSeq(t, 6, 7)),
            DecVal(SubSeq(t, 9, 10)))

\* the prefixes of s that the %m directive (1[0-2]|0[1-9]|[1-9]) can match,
\* and %d (3[01]|[12]\d|0[1-9]|[1-9]): one or two digits in the field's range
FieldMatches(s, from, hi) ==
    { k \in 1..2 :
        /\ from + k - 1 <= Len(s)
        /\ AllDigits(SubSeq(s, from, from + k - 1))
        /\ DecVal(SubSeq(s, from, from + k - 1)) \in 1..hi
        /\ (k = 1 => s[from] # "0") }

\* datetime.strptime(s, '%Y-%m-%d').date().toordinal(), or ValueError:
\* four digits, '-', month, '-', day, nothing left over, and a real date.
Strptime(s) ==
    LET parses ==
          { <<km, kd>> \in (1..2) \X (1..2) :
              /\ Len(s) = 4 + 1 + km + 1 + kd
              /\ AllDigits(SubSeq(s, 1, 4))
              /\ s[5] = "-"
              /\ km \in FieldMatches(s, 6, 12)
              /\ s[6 + km] = "-"
              /\ kd \in FieldMatches(s, 7 + km, 31) }
    IN  IF parses = {} THEN ValueError
        ELSE LET p == CHOOSE q \in parses : TRUE
                 y == DecVal(SubSeq(s, 1, 4))
                 m == DecVal(SubSeq(s, 6, 5 + p[1]))
                 d == DecVal(SubSeq(s, 7 + p[1], 6 + p[1] + p[2]))
             IN  IF y < MINYEAR \/ d > DaysInMonth(y, m) THEN ValueError
                 ELSE Parsed(Ymd2Ord(y, m, d))

(***************************************************************************)
(* Reference data.  No handler of the application writes to Artist,        *)
(* SubscriptionCourse, Customer or Event, so they are fixed tables.        *)
(***************************************************************************)
Artist == { [id |-> 1, name |-> "Alice"], [id |-> 2, name |-> "Bob"] }

SubscriptionCourse ==
    { [id |-> 1, course_name |-> "1month", duration_months |-> 1],
      [id |-> 2, course_name |-> "6month", duration_months |-> 6] }

Event == { [id |-> 1, group_id |-> 1] }

(***************************************************************************)
(* What a client may send.                                                 *)
(***************************************************************************)
\* the <id> path parameter of /join-funclub/<id>: a customer id
JoinPaths == { <<"5">>, <<"x">> }

\* the <id> path parameter of /customer-del/<id>: a subscription id
DelPaths == { <<DigitChar(i)>> : i \in 1..MaxSubId } \cup { <<"x">> }

\* the form field 'id' ('' when the field is missing)
FormIds == { <<DigitChar(i)>> : i \in 1..MaxSubId }
           \cup { <<>>, <<"x">>, <<"0">>, <<"-", "1">>, <<"0", "1">> }

ArtistNames == { "Alice", "Bob", "Nobody" }

CourseNames == { "1month", "6month", "Nocourse" }

D_2024_01_01 == <<"2", "0", "2", "4", "-", "0", "1", "-", "0", "1">>
D_2024_1_1   == <<"2", "0", "2", "4", "-", "1", "-", "1">>
D_2024_06_01 == <<"2", "0", "2", "4", "-", "0", "6", "-", "0", "1">>
D_2024_06_29 == <<"2", "0", "2", "4", "-", "0", "6", "-", "2", "9">>
D_2024_07_01 == <<"2", "0", "2", "4", "-", "0", "7", "-", "0", "1">>
D_2024_07_30 == <<"2", "0", "2", "4", "-", "0", "7", "-", "3", "0">>
D_2024_08_01 == <<"2", "0", "2", "4", "-", "0", "8", "-", "0", "1">>
D_2024_02_30 == <<"2", "0", "2", "4", "-", "0", "2", "-", "3", "0">>
D_9999_12_31 == <<"9", "9", "9", "9", "-", "1", "2", "-", "3", "1">>

\* the form field 'start_date' ('' when the field is missing)
DateStrings == { D_2024_01_01, D_2024_1_1, D_2024_06_01, D_2024_06_29,
                 D_2024_08_01, D_2024_02_30, D_9999_12_31, <<>> }

(***************************************************************************)
(* A request in service: the handler's position and local variables.       *)
(***************************************************************************)
Idle ==
    [ pc |-> "idle", handler |-> "none", path |-> <<>>, form_id |-> <<>>,
      id_num |-> 0, subscription_id |-> 0,
      artist_name |-> "", course_name |-> "", start_date_str |-> <<>>,
      artist_id |-> 0, course_id |-> 0, start_date |-> 0, end_date |-> 0,
      customer_id |-> 0, outcome |-> "none", endpoint |-> "none",
      redirect_id |-> 0, pre |-> <<{}, {}>> ]

\* the response: a flashed outcome and redirect(url_for(endpoint, id = id))
Respond(q, outcome, endpoint, id) ==
    [q EXCEPT !.pc = "done", !.outcome = outcome, !.endpoint = endpoint,
              !.redirect_id = id]

\* an exception no handler catches: Flask answers 500 Internal Server Error
Raise(q, exception) == Respond(q, exception, "500", 0)

Unhandled == { "ValueError", "TypeError", "OverflowError" }

(***************************************************************************)
(* The queries.                                                            *)
(***************************************************************************)
\* the id check left out
SubscriberExistsUnchecked(subscription_id) == FALSE

\* SELECT id FROM Subscription WHERE id = ?  ... fetchone() is not None
SubscriberExists(subscription_id) ==
    \E s \in Subscription : s.id = subscription_id

\* SELECT ... FROM SubscriptionCourse WHERE course_name = ?  (set of rows)
CourseByName(course_name) ==
    { c \in SubscriptionCourse : c.course_name = course_name }

\* SELECT id FROM Artist WHERE name = ?  (set of rows)
ArtistByName(artist_name) == { a \in Artist : a.name = artist_name }

\* months of 31 days
ComputeEndDate31(start_date, duration_month) == start_date + duration_month * 31

\* one day more than 30 per month
ComputeEndDateInclusive(start_date, duration_month) ==
    start_date + duration_month * 30 + 1

\* start_date + timedelta(days = duration_month * 30), on ordinals
ComputeEndDate(start_date, duration_month) == start_date + duration_month * 30

\* the same query with a range test that misses enclosing intervals
IsDoubleStartOnly(id_num, artist_id, start_date, end_date) ==
    \E s \in Subscription :
        /\ s.customer_id = id_num
        /\ s.group_id = artist_id
        /\ ~TextLess(s.start_date, IsoFormat(start_date))
        /\ TextLess(s.start_date, IsoFormat(end_date))

\* the same query with <= and >= in place of < and >
IsDoubleClosed(id_num, artist_id, start_date, end_date) ==
    \E s \in Subscription :
        /\ s.customer_id = id_num
        /\ s.group_id = artist_id
        /\ ~TextLess(IsoFormat(end_date), s.start_date)
        /\ ~TextLess(s.end_date, IsoFormat(start_date))

\* SELECT id FROM Subscription WHERE customer_id = ? and group_id = ?
\*   and start_date < ? and end_date > ?   with (id_num, artist_id, end, start)
IsDouble(id_num, artist_id, start_date, end_date) ==
    \E s \in Subscription :
        /\ s.customer_id = id_num
        /\ s.group_id = artist_id
        /\ TextLess(s.start_date, IsoFormat(end_date))
        /\ TextLess(IsoFormat(start_date), s.end_date)

\* the row of INSERT INTO Subscription (...) VALUES (?, ?, ?, ?, ?, ?)
NewRow(q) ==
    [ id |-> q.subscription_id, customer_id |-> q.id_num,
      group_id |-> q.artist_id, course_id |-> q.course_id,
      start_date |-> IsoFormat(q.start_date),
      end_date |-> IsoFormat(q.end_date) ]

\* Subscription.id is the key of the table: a second row with the same id
\* is refused with sqlite3.IntegrityError
KeyViolation(row) == \E s \in Subscription : s.id = row.id

\* an insert that the store also refuses for an overlapping row
CanInsertSerialized(q) ==
    /\ ~KeyViolation(NewRow(q))
    /\ ~IsDouble(q.id_num, q.artist_id, q.start_date, q.end_date)

\* cur.execute('INSERT ...') raises sqlite3.Error exactly when the store
\* refuses the row; nothing else is checked between the overlap query and
\* the insert
CanInsert(q) == ~KeyViolation(NewRow(q))

\* the same query without its WHERE clause
SubscriptionByIdNoWhere(id_num) == Subscription

\* SELECT * FROM Subscription WHERE id = ?  (set of rows)
SubscriptionById(id_num) == { s \in Subscription : s.id = id_num }

\* DELETE FROM Subscription WHERE id = ?
DeleteFrom(table, id_num) == { s \in table : s.id # id_num }

\* a redirect to the path parameter, as the other redirects of the handler
DelRedirectIdNum(q) == q.id_num

\* url_for('customer', id = customer['customer_id'])
DelRedirectId(q) == q.customer_id

(***************************************************************************)
(* join_funclub_execute                                                    *)
(***************************************************************************)
JoinCheckId(r) ==
    /\ req[r].pc = "idle"
    /\ \E path \in JoinPaths, form_id \in FormIds :
         LET id  == IntParse(path)
             sid == IntParse(form_id)
             q0  == [Idle EXCEPT !.handler = "join", !.path = path,
                                 !.form_id = form_id,
                                 !.pre = <<Subscription, EventParticipation>>]
             q1  == [q0 EXCEPT !.id_num = id.val]
             q2  == [q1 EXCEPT !.subscription_id = sid.val]
         IN  req' = [req EXCEPT ![r] =
                 IF ~id.ok THEN Raise(q0, "ValueError")
                 ELSE IF ~sid.ok
                 THEN Respond(q1, "InvalidId", "join_funclub", id.val)
                 ELSE IF sid.val <= 0
                 THEN Respond(q2, "InvalidId", "join_funclub", id.val)
                 ELSE IF SubscriberExists(sid.val)
                 THEN Respond(q2, "DuplicateId", "join_funclub", id.val)
                 ELSE [q2 EXCEPT !.pc = "lookup"]]
    /\ UNCHANGED <<Subscription, EventParticipation>>

JoinLookup(r) ==
    /\ req[r].pc = "lookup"
    /\ \E artist_name \in ArtistNames, course_name \in CourseNames,
          start_date_str \in DateStrings :
         LET q0 == [req[r] EXCEPT !.artist_name = artist_name,
                                  !.course_name = course_name,
                                  !.start_date_str = start_date_str]
             parsed  == Strptime(start_date_str)
             courses == CourseByName(course_name)
             artists == ArtistByName(artist_name)
             course  == CHOOSE c \in courses : TRUE
             artist  == CHOOSE a \in artists : TRUE
             end_date == ComputeEndDate(parsed.val, course.duration_months)
         IN  req' = [req EXCEPT ![r] =
                 IF ~parsed.ok
                 THEN Respond(q0, "InvalidDate", "join_funclub", q0.id_num)
                 ELSE IF courses = {} THEN Raise(q0, "TypeError")
                 ELSE IF end_date > MaxOrdinal THEN Raise(q0, "OverflowError")
                 ELSE IF artists = {} THEN Raise(q0, "TypeError")
                 ELSE [q0 EXCEPT !.pc = "overlap",
                                 !.start_date = parsed.val,
                                 !.end_date = end_date,
                                 !.artist_id = artist.id,
                                 !.course_id = course.id]]
    /\ UNCHANGED <<Subscription, EventParticipation>>

JoinOverlap(r) ==
    /\ req[r].pc = "overlap"
    /\ LET q == req[r]
       IN  req' = [req EXCEPT ![r] =
               IF IsDouble(q.id_num, q.artist_id, q.start_date, q.end_date)
               THEN Respond(q, "DuplicateMembership", "join_funclub", q.id_num)
               ELSE [q EXCEPT !.pc = "insert"]]
    /\ UNCHANGED <<Subscription, EventParticipation>>

JoinInsert(r) ==
    /\ req[r].pc = "insert"
    /\ LET q == req[r]
       IN  IF ~CanInsert(q)
           THEN /\ req' = [req EXCEPT ![r] =
                      Respond(q, "StorageError", "join_funclub", q.id_num)]
                /\ UNCHANGED Subscription
           ELSE /\ Subscription' = Subscription \cup { NewRow(q) }
                /\ req' = [req EXCEPT ![r] =
                      Respond(q, "Joined", "customer", q.id_num)]
    /\ UNCHANGED EventParticipation

(***************************************************************************)
(* customer_del_execute                                                    *)
(***************************************************************************)
DelLookup(r) ==
    /\ req[r].pc = "idle"
    /\ \E path \in DelPaths :
         LET id == IntParse(path)
             q0 == [Idle EXCEPT !.handler = "del", !.path = path,
                                !.pre = <<Subscription, EventParticipation>>]
             q1 == [q0 EXCEPT !.id_num = id.val]
             rows == SubscriptionById(id.val)
             customer == CHOOSE s \in rows : TRUE
         IN  req' = [req EXCEPT ![r] =
                 IF ~id.ok THEN Respond(q0, "InvalidId", "customer_del", 0)
                 ELSE IF rows = {}
                 THEN Respond(q1, "NotFound", "customer_del", id.val)
                 ELSE [q1 EXCEPT !.pc = "delete",
                                 !.customer_id = customer.customer_id]]
    /\ UNCHANGED <<Subscription, EventParticipation>>

DelDelete(r) ==
    /\ req[r].pc = "delete"
    /\ Subscription' = DeleteFrom(Subscription, req[r].id_num)
    /\ req' = [req EXCEPT ![r] =
           Respond(req[r], "Deleted", "customer", DelRedirectId(req[r]))]
    /\ UNCHANGED EventParticipation

(***************************************************************************)
(* close_connection: the request is over and the thread serves another.    *)
(***************************************************************************)
CloseConnection(r) ==
    /\ req[r].pc = "done"
    /\ req' = [req EXCEPT ![r] = Idle]
    /\ UNCHANGED <<Subscription, EventParticipation>>

(***************************************************************************)
(* The store when the application starts: fun.db, empty or holding one     *)
(* subscription of customer 6, with a participation in an event.           *)
(***************************************************************************)
SeedRow ==
    [ id |-> 1, customer_id |-> 6, group_id |-> 1, course_id |-> 1,
      start_date |-> D_2024_06_01, end_date |-> D_2024_07_01 ]

SeedParticipation == [ subscription_id |-> 1, event_id |-> 1 ]

Init ==
    /\ \/ Subscription = {} /\ EventParticipation = {}
       \/ Subscription = { SeedRow }
          /\ EventParticipation = { SeedParticipation }
    /\ req = [r \in Slots |-> Idle]

\* requests executed to completion one at a time, by thread 1
SeqNext ==
    \/ JoinCheckId(1)
    \/ JoinLookup(1)
    \/ JoinOverlap(1)
    \/ JoinInsert(1)
    \/ DelLookup(1)
    \/ DelDelete(1)
    \/ CloseConnection(1)

SeqSpec == Init /\ [][SeqNext]_vars

\* one request on each thread, in service at the same time and interleaved
\* between statements
Next ==
    \E r \in Slots :
        \/ JoinCheckId(r)
        \/ JoinLookup(r)
        \/ JoinOverlap(r)
        \/ JoinInsert(r)
        \/ DelLookup(r)
        \/ DelDelete(r)

Spec == Init /\ [][Next]_vars

(***************************************************************************)
(* Properties.                                                             *)
(***************************************************************************)
SamePair(a, b) == a.customer_id = b.customer_id /\ a.group_id = b.group_id

\* the half-open intervals [start_date, end_date) of two rows intersect
Overlap(a, b) ==
    /\ IsoOrdinal(a.start_date) < IsoOrdinal(b.end_date)
    /\ IsoOrdinal(b.start_date) < IsoOrdinal(a.end_date)

Requests == { req[r] : r \in Slots }

Finished(q, handler) == q.handler = handler /\ q.pc = "done"

Store == <<Subscription, EventParticipation>>

PreSubscription(q) == q.pre[1]

\* C1: with requests executed one at a time, the Subscription table never
\* holds two distinct rows of the same (customer_id, group_id) whose
\* intervals [start_date, end_date) overlap.
C1_NoOverlap ==
    \A a \in Subscription : \A b \in Subscription :
        (a # b /\ SamePair(a, b)) => ~Overlap(a, b)

\* a registration was refused for overlapping a stored row, and another was
\* accepted next to a stored row of the same customer and artist
C1_Witness ==
    \E q \in Requests :
        /\ Finished(q, "join") /\ q.outcome = "Joined"
        /\ \E a \in Subscription : \E b \in Subscription :
               a # b /\ SamePair(a, b) /\ a.id = q.subscription_id

\* C2: between the overlap query and the insert nothing validates the row
\* again: a request that has passed the query persists its row whatever
\* other requests have committed meanwhile, the store refusing it only for
\* its key.
C2_InsertAfterPassedCheck ==
    [][ \A r \in Slots :
          (req[r].pc = "insert" /\ req'[r] # req[r]) =>
             IF KeyViolation(NewRow(req[r]))
             THEN req'[r].outcome = "StorageError"
             ELSE /\ req'[r].outcome = "Joined"
                  /\ NewRow(req[r]) \in Subscription' ]_vars

\* two requests for the same customer and artist, with different ids and
\* overlapping ranges, have both answered success and both rows are stored
C2_Witness ==
    /\ Finished(req[1], "join") /\ req[1].outcome = "Joined"
    /\ Finished(req[2], "join") /\ req[2].outcome = "Joined"
    /\ req[1].subscription_id # req[2].subscription_id
    /\ SamePair(NewRow(req[1]), NewRow(req[2]))
    /\ Overlap(NewRow(req[1]), NewRow(req[2]))
    /\ { NewRow(req[1]), NewRow(req[2]) } \subseteq Subscription
    /\ PreSubscription(req[1]) = PreSubscription(req[2])

\* the request's form id names a row stored when the request arrived
DuplicateIdRequest(q) ==
    /\ Finished(q, "join")
    /\ IntParse(q.path).ok
    /\ IntParse(q.form_id).ok
    /\ \E s \in PreSubscription(q) : s.id = IntParse(q.form_id).val

Named(q) ==
    { s \in PreSubscription(q) :
        IntParse(q.path).ok /\ s.id = IntParse(q.path).val }

\* C4: a termination for a stored subscription id removes that row and no
\* other, and redirects to the customer_id the removed row held.
C4_Terminate ==
    \A q \in Requests :
        (Finished(q, "del") /\ Named(q) # {}) =>
            /\ q.outcome = "Deleted"
            /\ Cardinality(Named(q)) = 1
            /\ Subscription = PreSubscription(q) \ Named(q)
            /\ q.endpoint = "customer"
            /\ \A s \in Named(q) : q.redirect_id = s.customer_id

\* a row was removed from a table of two rows held by different customers
C4_Witness ==
    \E q \in Requests :
        /\ Finished(q, "del") /\ Named(q) # {}
        /\ Cardinality(Subscription) = 1
        /\ \E s \in Subscription : s.customer_id # q.redirect_id

\* C5: a termination for a subscription id that is not stored answers
\* NotFound and leaves the store as it was.
C5_NotFound ==
    \A q \in Requests :
        (Finished(q, "del") /\ IntParse(q.path).ok /\ Named(q) = {}) =>
            q.outcome = "NotFound" /\ Store = q.pre

C5_Witness ==
    \E q \in Requests :
        /\ Finished(q, "del") /\ IntParse(q.path).ok /\ Named(q) = {}
        /\ Subscription # {}
        /\ q.outcome = "NotFound"

\* C6: every EventParticipation row refers to a stored subscription, in
\* every state reached through terminations from a consistent store.
C6_ParticipationRefersToSubscription ==
    \A ep \in EventParticipation :
        \E s \in Subscription : s.id = ep.subscription_id

\* the request has gone through the overlap query
ReachedOverlapQuery(q) ==
    /\ Finished(q, "join")
    /\ q.outcome \in { "DuplicateMembership", "StorageError", "Joined" }

EndsWhereStarts(q, s) == IsoOrdinal(s.end_date) = q.start_date

StartsWhereEnds(q, s) == IsoOrdinal(s.start_date) = q.end_date

\* the rows of the request's customer and artist stored when it arrived
PairRows(q) ==
    { s \in PreSubscription(q) :
        s.customer_id = q.id_num /\ s.group_id = q.artist_id }

\* the request's range meets a stored row of its pair end to start and
\* intersects none
BackToBack(q) ==
    /\ ReachedOverlapQuery(q)
    /\ \E s \in PairRows(q) : EndsWhereStarts(q, s) \/ StartsWhereEnds(q, s)
    /\ \A s \in PairRows(q) :
          ~(IsoOrdinal(s.start_date) < q.end_date
            /\ q.start_date < IsoOrdinal(s.end_date))

\* C7: a registration starting on the end_date of a stored subscription of
\* the same customer and artist, or ending on its start_date, and touching
\* no other, passes the overlap check and is persisted.
C7_BackToBack ==
    \A q \in Requests :
        BackToBack(q) => q.outcome = "Joined" /\ NewRow(q) \in Subscription

\* a stored row has a neighbour before it and the new row ends where the
\* stored one starts
C7_Witness ==
    \E q \in Requests :
        /\ BackToBack(q)
        /\ \E s \in PairRows(q) : StartsWhereEnds(q, s)
        /\ NewRow(q) \in Subscription

C7_WitnessAfter ==
    \E q \in Requests :
        /\ BackToBack(q)
        /\ \E s \in PairRows(q) : EndsWhereStarts(q, s)
        /\ NewRow(q) \in Subscription

DurationOf(course_id) ==
    (CHOOSE c \in SubscriptionCourse : c.id = course_id).duration_months

\* C8: the row persisted by a successful registration starts on the parsed
\* start_date of the request and ends exactly 30 * duration_months days
\* later, duration_months being that of the course the request names; so
\* does every stored row.
C8_EndDate ==
    /\ \A s \in Subscription :
          IsoOrdinal(s.end_date)
              = IsoOrdinal(s.start_date) + 30 * DurationOf(s.course_id)
    /\ \A q \in Requests :
          (Finished(q, "join") /\ q.outcome = "Joined") =>
              \E s \in Subscription : \E c \in CourseByName(q.course_name) :
                  /\ s.id = q.subscription_id
                  /\ s.course_id = c.id
                  /\ IsoOrdinal(s.start_date) = Strptime(q.start_date_str).val
                  /\ IsoOrdinal(s.end_date)
                        = IsoOrdinal(s.start_date) + 30 * c.duration_months

\* a six-month registration whose date was sent as 2024-1-1
C8_Witness ==
    \E q \in Requests :
        /\ Finished(q, "join") /\ q.outcome = "Joined"
        /\ q.course_name = "6month"
        /\ q.start_date_str = D_2024_1_1
        /\ \E s \in Subscription :
              s.id = q.subscription_id /\ s.start_date = D_2024_01_01

\* a registration of customer 5 with artist "Alice"
ForAlice(q) ==
    /\ Finished(q, "join")
    /\ q.id_num = 5
    /\ q.artist_name = "Alice"

\* the row of customer 5 and "Alice" from 2024-01-01 for six months
FirstRow(s) ==
    /\ s.customer_id = 5 /\ s.group_id = 1 /\ s.course_id = 2
    /\ s.start_date = D_2024_01_01

\* first step of the scenario: nothing stored for the pair, six months from
\* 2024-01-01; the row is persisted with the given end_date, days after start
FirstPersisted(q, end_date, days) ==
    (/\ ForAlice(q) /\ ReachedOverlapQuery(q)
     /\ PairRows(q) = {}
     /\ q.course_name = "6month" /\ q.start_date_str = D_2024_01_01) =>
        /\ q.outcome = "Joined"
        /\ \E s \in Subscription :
              /\ s.id = q.subscription_id /\ FirstRow(s)
              /\ s.end_date = end_date
              /\ IsoOrdinal(s.end_date) - IsoOrdinal(s.start_date) = days

\* second step: the first row is the pair's only one and the request starts
\* on 2024-06-01
SecondRefused(q) ==
    (/\ ForAlice(q) /\ ReachedOverlapQuery(q)
     /\ PairRows(q) # {} /\ \A s \in PairRows(q) : FirstRow(s)
     /\ q.start_date_str = D_2024_06_01) =>
        q.outcome = "DuplicateMembership" /\ Store = q.pre

\* third step: the same store and the request starts on 2024-08-01
ThirdPersisted(q) ==
    (/\ ForAlice(q) /\ ReachedOverlapQuery(q)
     /\ PairRows(q) # {} /\ \A s \in PairRows(q) : FirstRow(s)
     /\ q.start_date_str = D_2024_08_01) =>
        q.outcome = "Joined" /\ NewRow(q) \in Subscription

\* C9 as stated: the first row ends on 2024-07-30, 181 days after its start.
C9_AsStated ==
    \A q \in Requests :
        /\ FirstPersisted(q, D_2024_07_30, 181)
        /\ SecondRefused(q)
        /\ ThirdPersisted(q)

\* C9 amended: the first row ends on 2024-06-29, 180 days after its start;
\* the registration from 2024-06-01 is refused with DuplicateMembership and
\* the one from 2024-08-01 succeeds.
C9_Scenario ==
    \A q \in Requests :
        /\ FirstPersisted(q, D_2024_06_29, 180)
        /\ SecondRefused(q)
        /\ ThirdPersisted(q)

\* the third registration has succeeded beside the first row
C9_Witness ==
    \E q \in Requests :
        /\ ForAlice(q) /\ q.outcome = "Joined"
        /\ q.start_date_str = D_2024_08_01
        /\ \E s \in PairRows(q) : FirstRow(s) /\ s.end_date = D_2024_06_29
        /\ \A s \in PairRows(q) : FirstRow(s)
        /\ NewRow(q) \in Subscription

\* the id and the date of the request were accepted and one of its names
\* matches no row
UnknownName(q) ==
    /\ Finished(q, "join")
    /\ q.outcome \notin { "InvalidId", "DuplicateId", "InvalidDate" }
    /\ IntParse(q.path).ok
    /\ CourseByName(q.course_name) = {} \/ ArtistByName(q.artist_name) = {}

\* C10: such a request ends in a handled LookupFailure, which is neither a
\* validation error nor an unhandled exception, and writes nothing.
C10_LookupFailure ==
    \A q \in Requests :
        UnknownName(q) =>
            /\ q.outcome = "LookupFailure"
            /\ q.outcome \notin Unhandled
            /\ Store = q.pre

====
